---- MODULE Spec2Model ----
(***************************************************************************)
(* Model of experiments/motia/src/python/logger.py: class Logger, which    *)
(* builds a flat log record and hands it to an injected RpcSender with     *)
(* send_no_wait('log', record).                                            *)
(*                                                                         *)
(* Python values are records of one shape, so that any two of them can be  *)
(* compared: type is the Python type, n an int's value, s a str's text or  *)
(* a list's address in the heap, items a dict's entries, attrs the         *)
(* instance __dict__ of a value that has one.                              *)
(***************************************************************************)
EXTENDS Integers, Sequences, FiniteSets, TLC

VARIABLES logger, heap, clock, begun, inflight, sent, done, ctor

vars == <<logger, heap, clock, begun, inflight, sent, done, ctor>>

(* ------------------------------ bounds --------------------------------- *)

\* Calls to info/error/debug/warn made in one behaviour.
MaxCalls == 2

\* Calls made in one behaviour that draws the extra from every shape.
MaxShapeCalls == 1

\* Ticks the wall clock advances in one behaviour.
MaxClock == 2

\* Host threads that may be inside a logging call at the same time.
Threads == {"thread-1", "thread-2"}

(* --------------------------- Python values ----------------------------- *)

NoEntries == <<>>

PyStr(x) == [type |-> "str", n |-> 0, s |-> x, items |-> NoEntries, attrs |-> NoEntries]

PyInt(k) == [type |-> "int", n |-> k, s |-> "", items |-> NoEntries, attrs |-> NoEntries]

NoneValue == [type |-> "NoneType", n |-> 0, s |-> "", items |-> NoEntries, attrs |-> NoEntries]

\* A list object, held by reference: s is its address in the heap.
ListAt(a) == [type |-> "list", n |-> 0, s |-> a, items |-> NoEntries, attrs |-> NoEntries]

Dict(m) == [type |-> "dict", n |-> 0, s |-> "", items |-> m, attrs |-> NoEntries]

\* collections.OrderedDict: a dict subclass whose instances have a __dict__.
OrderedDict(m) == [type |-> "OrderedDict", n |-> 0, s |-> "", items |-> m, attrs |-> NoEntries]

\* An instance of a plain class (types.SimpleNamespace) with attributes m.
Object(m) == [type |-> "object", n |-> 0, s |-> "", items |-> NoEntries, attrs |-> m]

FlowsAddr == "list@flows"

EmptyListAddr == "list@empty"

OneListAddr == "list@one"

\* What a reader of v sees: a list's elements, nothing for another value.
Contents(v, h) == IF v.type = "list" THEN h[v.s] ELSE <<>>

\* A test `if args is not None or True:` in place of `if args:`.
TruthyAlways(v, h) == TRUE

\* bool(v), as `if args:` evaluates it.
Truthy(v, h) ==
  CASE v.type = "NoneType" -> FALSE
    [] v.type = "int" -> v.n # 0
    [] v.type = "str" -> v.s # ""
    [] v.type = "list" -> Len(h[v.s]) > 0
    [] v.type \in {"dict", "OrderedDict"} -> DOMAIN v.items # {}
    [] OTHER -> TRUE

\* hasattr(v, '__dict__')
HasDunderDict(v) == v.type \in {"object", "OrderedDict"}

\* isinstance(v, dict)
IsDict(v) == v.type \in {"dict", "OrderedDict"}

\* vars(v), for a v that has a __dict__
Vars(v) == v.attrs

\* The elements of a list
Elements(l) == {l[i] : i \in 1..Len(l)}

\* d.update(m), as the resulting dict
Update(d, m) == [k \in (DOMAIN d) \cup (DOMAIN m) |-> IF k \in DOMAIN m THEN m[k] ELSE d[k]]

(* ------------------------------ inputs --------------------------------- *)

TraceIds == {"trace-1"}

FlowLists == {<<"flow-a">>}

\* "ok" hands the event on; "raising" raises out of send_no_wait.
Senders == {"ok", "raising"}

Messages == {"hello", "bye"}

\* The message of the k-th call of a behaviour with concurrent calls: each
\* call passes its own, so that a payload shows whose message it carries.
CallMessage(k) == IF k % 3 = 1 THEN "hello" ELSE IF k % 3 = 2 THEN "bye" ELSE "again"

\* The extras of the behaviours with concurrent calls: none, entries beside
\* the base fields, and entries on every base field.
Extras ==
  { NoneValue,
    Dict("userId" :> PyInt(42)),
    Dict(("level" :> PyStr("fatal")) @@ ("time" :> PyInt(0)) @@ ("traceId" :> PyStr("other"))
           @@ ("flows" :> PyStr("none")) @@ ("msg" :> PyStr("overridden"))) }

\* An extra of every shape _log tells apart.
ExtraShapes ==
  { NoneValue,
    Dict(NoEntries),
    Dict("userId" :> PyInt(42)),
    Dict(("msg" :> PyStr("overridden")) @@ ("time" :> PyInt(0))),
    Dict(("level" :> PyStr("fatal")) @@ ("traceId" :> PyStr("other")) @@ ("flows" :> PyStr("none"))),
    PyInt(42),
    PyInt(0),
    PyStr(""),
    ListAt(EmptyListAddr),
    ListAt(OneListAddr),
    Object(("userId" :> PyInt(42)) @@ ("msg" :> PyStr("attribute"))),
    OrderedDict(NoEntries),
    OrderedDict(("msg" :> PyStr("overridden")) @@ ("level" :> PyStr("fatal"))) }

(* ------------------------------ Logger --------------------------------- *)

MsPerSecond == 1000

\* The clock counts ticks of half a millisecond.
TicksPerSecond == 2 * MsPerSecond

\* A clock read that counts down.
TimeMsCountdown(c) == ((MaxClock - c) * MsPerSecond) \div TicksPerSecond

\* int(time.time() * 1000)
TimeMs(c) == (c * MsPerSecond) \div TicksPerSecond

BaseKeys == {"level", "time", "traceId", "flows", "msg"}

\* The dict literal of _log.
BaseEntry(self, level, message, c) ==
  ("level" :> PyStr(level)) @@ ("time" :> PyInt(TimeMs(c))) @@ ("traceId" :> self.trace_id)
    @@ ("flows" :> self.flows) @@ ("msg" :> PyStr(message))

\* A normalisation that wraps a non-dict under "args".
NormalizedArgsMisnamed(args) ==
  IF HasDunderDict(args) THEN Vars(args)
  ELSE IF ~IsDict(args) THEN ("args" :> args)
  ELSE args.items

\* What `args` is bound to when log_entry.update(args) runs.
NormalizedArgs(args) ==
  IF HasDunderDict(args) THEN Vars(args)
  ELSE IF ~IsDict(args) THEN ("data" :> args)
  ELSE args.items

\* log_entry as passed to send_no_wait.
LogEntry(self, level, message, args, c, h) ==
  IF Truthy(args, h)
    THEN Update(BaseEntry(self, level, message, c), NormalizedArgs(args))
    ELSE BaseEntry(self, level, message, c)

\* A _log that stamps the caller's dict.
ArgsStamped(args) == IF IsDict(args) THEN [args EXCEPT !.items = Update(@, "logged" :> PyInt(1))] ELSE args

\* The caller's args object after _log: _log rebinds its local name and
\* updates log_entry only.
ArgsAfter(args) == args

\* An __init__ that keeps the flows under trace_id.
NewLoggerMixed(trace_id, flows, rpc) == [trace_id |-> flows, flows |-> flows, rpc |-> rpc]

\* Logger.__init__
NewLogger(trace_id, flows, rpc) == [trace_id |-> trace_id, flows |-> flows, rpc |-> rpc]

\* self.rpc.send_no_wait(event, payload), as the sender's record of the call.
SendNoWait(log, event, payload) == Append(log, [event |-> event, payload |-> payload])

\* A _log that sends the record a second time.
SendLogTwice(log, entry) == SendNoWait(SendNoWait(log, "log", entry), "log", entry)

\* self.rpc.send_no_wait('log', log_entry)
SendLog(log, entry) == SendNoWait(log, "log", entry)

\* Whether send_no_wait of this sender raises.
Raises(rpc) == rpc = "raising"

\* How a call whose send_no_wait raised or returned ends for its caller.
Outcome(raised) == IF raised THEN "raised" ELSE "returned"

Init ==
  \E t \in TraceIds, f \in FlowLists, r \in Senders :
    /\ logger = NewLogger(PyStr(t), ListAt(FlowsAddr), r)
    /\ heap = (FlowsAddr :> f) @@ (EmptyListAddr :> <<>>) @@ (OneListAddr :> <<"item">>)
    /\ ctor = [trace_id |-> PyStr(t), flows |-> ListAt(FlowsAddr), flowsValue |-> f, rpc |-> r]
    /\ clock = 0
    /\ begun = 0
    /\ inflight = {}
    /\ sent = <<>>
    /\ done = <<>>

\* _log up to its last statement, as the call it leaves about to send: the
\* record is built from the clock, the logger's fields and the arguments.
Log(level, message, args) ==
  [level |-> level, message |-> message, args |-> args,
   argsAfter |-> ArgsAfter(args),
   entry |-> LogEntry(logger, level, message, args, clock, heap)]

\* A thread of the host enters a logging method; the call is numbered, and it
\* notes the method and how many calls had ended.
Invoke(method, call) ==
  /\ begun < MaxCalls
  /\ Cardinality(inflight) < Cardinality(Threads)
  /\ begun' = begun + 1
  /\ inflight' = inflight \cup
       {[id |-> begun + 1, method |-> method, doneBefore |-> Len(sent)] @@ call}
  /\ UNCHANGED <<logger, heap, clock, sent, done, ctor>>

info(message, args) == Invoke("info", Log("info", message, args))

error(message, args) == Invoke("error", Log("error", message, args))

debug(message, args) == Invoke("debug", Log("debug", message, args))

\* A warn that tags its records "warning".
warnAsWarning(message, args) == Invoke("warn", Log("warning", message, args))

warn(message, args) == Invoke("warn", Log("warn", message, args))

\* The last statement of _log, and the call's end.
Dispatch(c) ==
  /\ c \in inflight
  /\ sent' = SendLog(sent, c.entry)
  /\ done' = Append(done, [call |-> c, outcome |-> Outcome(Raises(logger.rpc)),
                            flowsSeen |-> Contents(c.entry["flows"], heap)])
  /\ inflight' = inflight \ {c}
  /\ UNCHANGED <<logger, heap, clock, begun, ctor>>

\* The wall clock advances.
Tick ==
  /\ clock < MaxClock
  /\ clock' = clock + 1
  /\ UNCHANGED <<logger, heap, begun, inflight, sent, done, ctor>>

\* The holder of a received payload adds a flow of its own to the list under
\* the payload's "flows" key, unless it is there already.
HolderAppendsToFlows(i) ==
  /\ i \in 1..Len(sent)
  /\ sent[i].payload["flows"].type = "list"
  /\ "injected" \notin Elements(heap[sent[i].payload["flows"].s])
  /\ heap' = [heap EXCEPT ![sent[i].payload["flows"].s] = Append(@, "injected")]
  /\ UNCHANGED <<logger, clock, begun, inflight, sent, done, ctor>>

Next ==
  \/ \E a \in Extras : info(CallMessage(begun + 1), a)
  \/ \E a \in Extras : error(CallMessage(begun + 1), a)
  \/ \E a \in Extras : debug(CallMessage(begun + 1), a)
  \/ \E a \in Extras : warn(CallMessage(begun + 1), a)
  \/ \E c \in inflight : Dispatch(c)
  \/ Tick
  \/ \E i \in 1..MaxCalls : HolderAppendsToFlows(i)

Spec == Init /\ [][Next]_vars

\* One call at a time, its extra drawn from every shape.
NextShapes ==
  \/ \E m \in Messages, a \in ExtraShapes : begun < MaxShapeCalls /\ inflight = {} /\ info(m, a)
  \/ \E m \in Messages, a \in ExtraShapes : begun < MaxShapeCalls /\ inflight = {} /\ error(m, a)
  \/ \E m \in Messages, a \in ExtraShapes : begun < MaxShapeCalls /\ inflight = {} /\ debug(m, a)
  \/ \E m \in Messages, a \in ExtraShapes : begun < MaxShapeCalls /\ inflight = {} /\ warn(m, a)
  \/ \E c \in inflight : Dispatch(c)
  \/ Tick

SpecShapes == Init /\ [][NextShapes]_vars

(* ------------------------ what the claims speak of ---------------------- *)

\* The calls that have ended; call i dispatched sent[i].
Finished == 1..Len(done)

Payload(i) == sent[i].payload

Call(i) == done[i].call

\* The extras Python holds false: None, 0, '', [] and the empty mappings.
FalsyExtras ==
  {NoneValue, PyInt(0), PyStr(""), ListAt(EmptyListAddr), Dict(NoEntries), OrderedDict(NoEntries)}

IsMapping(a) == a.type \in {"dict", "OrderedDict"}

IsObject(a) == a.type = "object"

\* The entries a call merges that can fall on a base field: those of a plain
\* dict, and the instance attributes of any other value that has some.
MergedEntries(a) == IF a.type = "dict" THEN a.items ELSE a.attrs

Overrides(a, k) == k \in DOMAIN MergedEntries(a)

\* Call j began after call i had ended.
Successive(i, j) == i <= Call(j).doneBefore

\* The value a base field has when no extra entry falls on it.
BaseValueOk(i, k) ==
  CASE k = "level" -> Payload(i)[k] = PyStr(Call(i).method)
    [] k = "msg" -> Payload(i)[k] = PyStr(Call(i).message)
    [] k = "traceId" -> Payload(i)[k] = ctor.trace_id
    [] k = "flows" -> Payload(i)[k] = ctor.flows
    [] k = "time" -> Payload(i)[k].type = "int" /\ Payload(i)[k].n \in 0..TimeMs(clock)

(* -------------------------------- claims -------------------------------- *)

\* C1: every call to info, error, debug or warn performs exactly one
\* send_no_wait on the sender, with event name 'log': the sender has received
\* one 'log' event per ended call, the one carrying that call's record, and
\* nothing else.
C1_OneLogPerCall ==
  /\ Len(sent) = Len(done)
  /\ Len(done) + Cardinality(inflight) = begun
  /\ \A i \in 1..Len(sent) : sent[i].event = "log"
  /\ \A i \in Finished : Payload(i) = Call(i).entry
  /\ \A i, j \in Finished : Call(i).id = Call(j).id => i = j

C1_Witness ==
  /\ Len(sent) = MaxCalls
  /\ inflight = {}
  /\ \E i, j \in Finished : Call(i).method # Call(j).method /\ Call(i).args # Call(j).args

\* C2: no logging call fails visibly to its caller, also when the sender's
\* send_no_wait raises.
C2_NeverFailsVisibly == \A i \in Finished : done[i].outcome = "returned"

\* C7: a call with no extra, a None extra or an empty mapping as extra
\* dispatches a payload with exactly the five keys level, time, traceId, flows
\* and msg, each with its base value, msg being the message passed.
C7_NoExtraFiveKeys ==
  \A i \in Finished :
    Call(i).args \in {NoneValue, Dict(NoEntries), OrderedDict(NoEntries)} =>
      /\ DOMAIN Payload(i) = BaseKeys
      /\ \A k \in BaseKeys : BaseValueOk(i, k)

C7_Witness ==
  \E i \in Finished : Call(i).args = Dict(NoEntries) /\ Payload(i)["msg"] = PyStr("bye")

\* C3 as stated: whatever the extra, the payload's traceId and flows equal the
\* trace id and the flow list passed at construction.
C3_TraceAndFlowsAlwaysFromConstruction ==
  \A i \in Finished :
    /\ Payload(i)["traceId"] = ctor.trace_id
    /\ Payload(i)["flows"] = ctor.flows

\* C3, amended: in any call order and under any interleaving, the payload's
\* traceId and flows are the trace id and the flow list (the list object
\* itself) passed at construction, unless the call's merged extra has an entry
\* of that name, whose value the payload then holds.
C3_TraceAndFlowsFromConstruction ==
  \A i \in Finished : \A k \in {"traceId", "flows"} :
    IF Overrides(Call(i).args, k)
      THEN Payload(i)[k] = MergedEntries(Call(i).args)[k]
      ELSE BaseValueOk(i, k)

\* Two calls in flight together, dispatched against the order they began in,
\* one with an extra beside the base fields and one with entries on them.
C3_Witness ==
  /\ Len(done) >= 2
  /\ Call(1).id = 2 /\ Call(2).id = 1 /\ Call(1).doneBefore = 0
  /\ Call(1).args = Dict("userId" :> PyInt(42)) /\ Payload(1)["flows"] = ctor.flows
  /\ Overrides(Call(2).args, "traceId") /\ Payload(2)["traceId"] = PyStr("other")

\* C4 as stated: whatever the extra, the payload's level is the name of the
\* method invoked.
C4_LevelAlwaysMethodName ==
  \A i \in Finished : Payload(i)["level"] = PyStr(Call(i).method)

\* C4, amended: the payload's level is the name of the method invoked, unless
\* the call's merged extra (a plain dict's entries, an object's attributes)
\* has an entry "level", whose value the payload then holds.
C4_LevelIsMethodName ==
  \A i \in Finished :
    IF Overrides(Call(i).args, "level")
      THEN Payload(i)["level"] = MergedEntries(Call(i).args)["level"]
      ELSE Payload(i)["level"] = PyStr(Call(i).method)

C4_Witness ==
  \E i \in Finished :
    /\ Payload(i)["level"] = PyStr("warn")
    /\ Call(i).args.type = "OrderedDict" /\ "level" \in DOMAIN Call(i).args.items

\* C5: when the extra mapping has a key that collides with a base field name,
\* the payload holds the extra's value for every key of the extra, and every
\* base field the extra does not name keeps its base value.
C5_ExtraMappingWins ==
  \A i \in Finished :
    (IsMapping(Call(i).args) /\ DOMAIN Call(i).args.items \cap BaseKeys # {}) =>
      /\ \A k \in DOMAIN Call(i).args.items :
           k \in DOMAIN Payload(i) /\ Payload(i)[k] = Call(i).args.items[k]
      /\ \A k \in BaseKeys \ DOMAIN Call(i).args.items : BaseValueOk(i, k)

\* C6 as stated: every supplied extra that is neither a mapping nor an object
\* with attributes is dispatched as the five base fields plus "data".
C6_EveryNonMappingWrapped ==
  \A i \in Finished :
    (Call(i).args # NoneValue /\ ~IsMapping(Call(i).args) /\ ~IsObject(Call(i).args)) =>
      /\ DOMAIN Payload(i) = BaseKeys \cup {"data"}
      /\ Payload(i)["data"] = Call(i).args
      /\ \A k \in BaseKeys : BaseValueOk(i, k)

\* C6, amended: every extra that is neither a mapping nor an object with
\* attributes and that Python holds true (not None, 0, '' or an empty
\* sequence) is dispatched as the five base fields plus the single entry
\* "data", whose value is that extra; one it holds false is not merged.
C6_TruthyNonMappingWrapped ==
  \A i \in Finished :
    (~IsMapping(Call(i).args) /\ ~IsObject(Call(i).args)) =>
      /\ \A k \in BaseKeys : BaseValueOk(i, k)
      /\ IF Call(i).args \in FalsyExtras
           THEN DOMAIN Payload(i) = BaseKeys
           ELSE /\ DOMAIN Payload(i) = BaseKeys \cup {"data"}
                /\ Payload(i)["data"] = Call(i).args

C6_Witness ==
  /\ \E i \in Finished : Call(i).args = PyInt(42) /\ Payload(i)["data"] = PyInt(42)
  /\ Len(done) = MaxShapeCalls

\* C8 as stated: across successive calls made while the clock does not go
\* back, the payloads' time is an integer and does not decrease, whatever
\* extra each call is given.
C8_TimeAlwaysNonDecreasing ==
  \A i, j \in Finished :
    Successive(i, j) =>
      /\ Payload(i)["time"].type = "int" /\ Payload(j)["time"].type = "int"
      /\ Payload(i)["time"].n <= Payload(j)["time"].n

\* C8, amended: across successive calls made while the clock does not go
\* back, the time of the payloads of the calls whose merged extra has no entry
\* "time" is an integer and does not decrease; an entry "time" of the extra
\* takes its place in the payload.
C8_TimeNonDecreasing ==
  /\ \A i \in Finished :
       IF Overrides(Call(i).args, "time")
         THEN Payload(i)["time"] = MergedEntries(Call(i).args)["time"]
         ELSE Payload(i)["time"].type = "int"
  /\ \A i, j \in Finished :
       (Successive(i, j) /\ ~Overrides(Call(i).args, "time") /\ ~Overrides(Call(j).args, "time")) =>
         Payload(i)["time"].n <= Payload(j)["time"].n

\* Two successive calls, the clock having reached the next millisecond
\* between them.
C8_Witness ==
  \E i, j \in Finished :
    /\ Successive(i, j)
    /\ ~Overrides(Call(i).args, "time") /\ ~Overrides(Call(j).args, "time")
    /\ Payload(i)["time"].n < Payload(j)["time"].n

\* C9 as stated: the logger's fields are those of construction, no call has
\* modified its extra, and every payload carries the level and the message of
\* its own call.
C9_OwnLevelAndMessageAlways ==
  /\ logger = NewLogger(ctor.trace_id, ctor.flows, ctor.rpc)
  /\ \A i \in Finished :
       /\ Call(i).argsAfter = Call(i).args
       /\ Payload(i)["level"] = PyStr(Call(i).method)
       /\ Payload(i)["msg"] = PyStr(Call(i).message)

\* What C9, amended, says of every state.
C9_State ==
  /\ logger = NewLogger(ctor.trace_id, ctor.flows, ctor.rpc)
  /\ \A c \in inflight : c.argsAfter = c.args
  /\ \A i \in Finished :
       /\ Call(i).argsAfter = Call(i).args
       /\ \A k \in {"level", "msg"} :
            IF Overrides(Call(i).args, k)
              THEN Payload(i)[k] = MergedEntries(Call(i).args)[k]
              ELSE BaseValueOk(i, k)

\* A step of a logging call: one begins, or one dispatches and ends.
LoggingStep == begun' # begun \/ sent' # sent

\* C9, amended: a logging call only reads the logger. Under any interleaving
\* the logger's trace_id, flows and sender are those of construction, no step
\* of a call changes the logger or the flow list, no call modifies its extra,
\* and each payload's level and msg are those of its own call or, where that
\* call's own merged extra has an entry of that name, that entry's value:
\* never a value of another call.
C9_CallsOnlyRead ==
  [][C9_State' /\ (LoggingStep => (logger' = logger /\ heap' = heap))]_vars

C9_Witness ==
  /\ Len(done) >= 2
  /\ Call(1).id = 2 /\ Call(1).doneBefore = 0 /\ Call(2).doneBefore = 0
  /\ Call(1).method # Call(2).method
  /\ Payload(1)["msg"] = PyStr(Call(1).message)
  /\ Payload(2)["msg"] = PyStr("overridden")

\* C10: whatever a holder of a payload does to it, its flows list included,
\* the logger's stored flows are those of construction and every payload
\* dispatched carries the flows passed at construction.
C10_PayloadsAreIndependent ==
  /\ Contents(logger.flows, heap) = ctor.flowsValue
  /\ \A i \in Finished :
       ~Overrides(Call(i).args, "flows") => done[i].flowsSeen = ctor.flowsValue

====
